---- MODULE Spec2Model ----
(***************************************************************************)
(* Model of backend/server.py: the outbound appointment-booking dialogue.  *)
(* Text is modelled as sequences of one-character strings, so that         *)
(* str.lower, str.title, str.split, str.strip, the `in` substring test and *)
(* re.search are computed character by character, as Python computes them.*)
(***************************************************************************)
EXTENDS Integers, Sequences, FiniteSets, Bags, TLC

----------------------------------------------------------------------------
(* Characters and the str methods used by server.py                        *)

LowerAlpha == <<"a","b","c","d","e","f","g","h","i","j","k","l","m",
                "n","o","p","q","r","s","t","u","v","w","x","y","z">>
UpperAlpha == <<"A","B","C","D","E","F","G","H","I","J","K","L","M",
                "N","O","P","Q","R","S","T","U","V","W","X","Y","Z">>

Range(f) == {f[i] : i \in DOMAIN f}

LowerLetters == Range(LowerAlpha)
UpperLetters == Range(UpperAlpha)
Letters == LowerLetters \cup UpperLetters
Digits == {"0","1","2","3","4","5","6","7","8","9"}
WordChars == Letters \cup Digits \cup {"_"}
Whitespace == {" "}

IndexIn(alpha, ch) == CHOOSE i \in DOMAIN alpha : alpha[i] = ch

LowerCh(ch) == IF ch \in UpperLetters THEN LowerAlpha[IndexIn(UpperAlpha, ch)] ELSE ch
UpperCh(ch) == IF ch \in LowerLetters THEN UpperAlpha[IndexIn(LowerAlpha, ch)] ELSE ch

\* str.lower()
Lower(s) == [i \in DOMAIN s |-> LowerCh(s[i])]

\* str.title(): a letter that follows a non-letter is upper-cased, a letter
\* that follows a letter is lower-cased
Title(s) == [i \in DOMAIN s |->
               IF i = 1 \/ s[i-1] \notin Letters THEN UpperCh(s[i]) ELSE LowerCh(s[i])]

\* sub in s
Contains(s, sub) ==
    \E i \in 1..(Len(s) - Len(sub) + 1) : SubSeq(s, i, i + Len(sub) - 1) = sub

\* s.find(sub) as a 1-based index; 0 when absent
Find(s, sub) ==
    IF Contains(s, sub)
    THEN CHOOSE i \in 1..(Len(s) - Len(sub) + 1) :
            /\ SubSeq(s, i, i + Len(sub) - 1) = sub
            /\ \A j \in 1..(i-1) : SubSeq(s, j, j + Len(sub) - 1) # sub
    ELSE 0

\* s.split(sep)[1] for a string that contains sep: the text between the
\* first occurrence of sep and the next one (or the end)
SplitSecond(s, sep) ==
    LET rest == SubSeq(s, Find(s, sep) + Len(sep), Len(s))
    IN  IF Contains(rest, sep) THEN SubSeq(rest, 1, Find(rest, sep) - 1) ELSE rest

RECURSIVE LStrip(_)
LStrip(s) == IF s # <<>> /\ Head(s) \in Whitespace THEN LStrip(Tail(s)) ELSE s

RECURSIVE RStrip(_)
RStrip(s) == IF s # <<>> /\ s[Len(s)] \in Whitespace
             THEN RStrip(SubSeq(s, 1, Len(s) - 1)) ELSE s

\* str.strip()
Strip(s) == RStrip(LStrip(s))

RECURSIVE FirstWord(_)
\* the leading run of non-whitespace characters
FirstWord(s) == IF s = <<>> \/ Head(s) \in Whitespace THEN <<>>
                ELSE <<Head(s)>> \o FirstWord(Tail(s))

RECURSIVE Split(_)
\* str.split(): the whitespace-separated words
Split(s) == LET t == LStrip(s)
            IN  IF t = <<>> THEN <<>>
                ELSE <<FirstWord(t)>> \o Split(SubSeq(t, Len(FirstWord(t)) + 1, Len(t)))

\* Python's None; no text is equal to it
None == <<"None">>

\* the truth value of a Python object used in a condition
Truthy(v) == v \notin {<<>>, None}

----------------------------------------------------------------------------
(* re.search for the patterns of extract_appointment_info.  A pattern is a *)
(* tree; Ends(re, s, i) is the set of positions at which a match of re     *)
(* that starts at position i of s can end.  Every quantifier of these      *)
(* patterns is greedy over a single character class and no alternative is  *)
(* a prefix of another, so the match Python's backtracking returns is the  *)
(* longest one at the leftmost start.                                      *)

Lit(w) == [t |-> "lit", w |-> w]
Cls(cs) == [t |-> "cls", cs |-> cs]
Cat(rs) == [t |-> "cat", rs |-> rs]
Alt(rs) == [t |-> "alt", rs |-> rs]
\* between lo and hi repetitions; hi = -1 stands for no upper limit
Rep(r, lo, hi) == [t |-> "rep", r |-> r, lo |-> lo, hi |-> hi]

Max(S) == CHOOSE x \in S : \A y \in S : y <= x
Min(S) == CHOOSE x \in S : \A y \in S : x <= y

RECURSIVE Ends(_, _, _)
Ends(re, s, i) ==
    CASE re.t = "lit" ->
            IF i + Len(re.w) - 1 <= Len(s) /\ SubSeq(s, i, i + Len(re.w) - 1) = re.w
            THEN {i + Len(re.w)} ELSE {}
      [] re.t = "cls" ->
            IF i <= Len(s) /\ s[i] \in re.cs THEN {i + 1} ELSE {}
      [] re.t = "cat" ->
            IF re.rs = <<>> THEN {i}
            ELSE UNION {Ends(Cat(Tail(re.rs)), s, j) : j \in Ends(Head(re.rs), s, i)}
      [] re.t = "alt" ->
            UNION {Ends(re.rs[k], s, i) : k \in DOMAIN re.rs}
      [] re.t = "rep" ->
            (IF re.lo = 0 THEN {i} ELSE {})
            \cup (IF re.hi = 0 THEN {}
                  ELSE UNION {Ends(Rep(re.r, IF re.lo = 0 THEN 0 ELSE re.lo - 1,
                                             IF re.hi = -1 THEN -1 ELSE re.hi - 1), s, j) :
                              j \in {e \in Ends(re.r, s, i) : e > i}})

Starts(re, s) == {i \in 1..(Len(s) + 1) : Ends(re, s, i) # {}}

\* re.search(re, s) is not None
Matches(re, s) == Starts(re, s) # {}

\* re.search(re, s).group(0)
Group0(re, s) ==
    LET i == Min(Starts(re, s))
    IN  SubSeq(s, i, Max(Ends(re, s, i)) - 1)

\* re.search of pre(grp)post: the text captured by the group
GroupStarts(pre, grp, post, s) == Starts(Cat(<<pre, grp, post>>), s)

Group1(pre, grp, post, s) ==
    LET i == Min(GroupStarts(pre, grp, post, s))
        p == Max({e \in Ends(pre, s, i) : Ends(Cat(<<grp, post>>), s, e) # {}})
        q == Max({e \in Ends(grp, s, p) : Ends(post, s, e) # {}})
    IN  SubSeq(s, p, q - 1)

Weekday ==
    Alt(<<Lit(<<"m","o","n","d","a","y">>),
          Lit(<<"t","u","e","s","d","a","y">>),
          Lit(<<"w","e","d","n","e","s","d","a","y">>),
          Lit(<<"t","h","u","r","s","d","a","y">>),
          Lit(<<"f","r","i","d","a","y">>),
          Lit(<<"s","a","t","u","r","d","a","y">>),
          Lit(<<"s","u","n","d","a","y">>)>>)
MonthAbbr ==
    Alt(<<Lit(<<"j","a","n">>), Lit(<<"f","e","b">>), Lit(<<"m","a","r">>),
          Lit(<<"a","p","r">>), Lit(<<"m","a","y">>), Lit(<<"j","u","n">>),
          Lit(<<"j","u","l">>), Lit(<<"a","u","g">>), Lit(<<"s","e","p">>),
          Lit(<<"o","c","t">>), Lit(<<"n","o","v">>), Lit(<<"d","e","c">>)>>)
RelativeDay ==
    Alt(<<Lit(<<"t","o","m","o","r","r","o","w">>),
          Lit(<<"t","o","d","a","y">>),
          Lit(<<"n","e","x","t"," ","w","e","e","k">>)>>)
AmPm == Alt(<<Lit(<<"a","m">>), Lit(<<"p","m">>)>>)
PartOfDay ==
    Alt(<<Lit(<<"m","o","r","n","i","n","g">>),
          Lit(<<"a","f","t","e","r","n","o","o","n">>),
          Lit(<<"e","v","e","n","i","n","g">>),
          Lit(<<"n","o","o","n">>)>>)

Spaces1 == Rep(Cls(Whitespace), 1, -1)
Spaces0 == Rep(Cls(Whitespace), 0, -1)
Alpha1 == Rep(Cls(Letters), 1, -1)
Nothing == Cat(<<>>)
DateSep == Cls({"/", "-"})

\* doctor_patterns, each as <<before the group, the group, after the group>>
doctor_patterns ==
    << <<Cat(<<Lit(<<"d","r">>), Rep(Cls({"."}), 0, 1), Spaces1>>), Alpha1, Nothing>>,
       <<Cat(<<Lit(<<"d","o","c","t","o","r">>), Spaces1>>), Alpha1, Nothing>>,
       <<Nothing, Alpha1, Cat(<<Spaces1, Lit(<<"d","o","c","t","o","r">>)>>)>> >>

date_patterns ==
    << Weekday,
       Cat(<<MonthAbbr, Rep(Cls(WordChars), 0, -1), Spaces1, Rep(Cls(Digits), 1, 2)>>),
       Cat(<<Rep(Cls(Digits), 1, 2), DateSep, Rep(Cls(Digits), 1, 2), DateSep,
             Rep(Cls(Digits), 2, 4)>>),
       RelativeDay >>

time_patterns ==
    << Cat(<<Rep(Cls(Digits), 1, 2), Lit(<<":">>), Rep(Cls(Digits), 2, 2),
             Spaces0, Rep(AmPm, 0, 1)>>),
       Cat(<<Rep(Cls(Digits), 1, 2), Spaces0, AmPm>>),
       PartOfDay >>

EmptyDict == [k \in {} |-> <<>>]

\* the first pattern of the list that matches, 0 when none does
FirstMatching(patterns, s) ==
    LET hits == {k \in DOMAIN patterns : Matches(patterns[k], s)}
    IN  IF hits = {} THEN 0 ELSE Min(hits)

FirstMatchingGroup(patterns, s) ==
    LET hits == {k \in DOMAIN patterns :
                    GroupStarts(patterns[k][1], patterns[k][2], patterns[k][3], s) # {}}
    IN  IF hits = {} THEN 0 ELSE Min(hits)

extract_appointment_info(text) ==
    LET low == Lower(text)
        d == FirstMatchingGroup(doctor_patterns, low)
        dt == FirstMatching(date_patterns, low)
        tm == FirstMatching(time_patterns, low)
        doctor == IF d = 0 THEN EmptyDict
                  ELSE "doctor" :> Title(Group1(doctor_patterns[d][1], doctor_patterns[d][2],
                                                doctor_patterns[d][3], low))
        date == IF dt = 0 THEN EmptyDict ELSE "date" :> Group0(date_patterns[dt], low)
        time == IF tm = 0 THEN EmptyDict ELSE "time" :> Group0(time_patterns[tm], low)
    IN  doctor @@ date @@ time

----------------------------------------------------------------------------
(* The inputs: call identifiers, transcripts, names, responder outcomes    *)

CallSids == {"CA1", "CA2"}
\* form_data.get('CallSid') of a request that carries no CallSid
NoCallSid == "None"

T_Empty == <<>>
\* "Hi I'm John and I need an appointment"
T_John == <<"H","i"," ","I","'","m"," ","J","o","h","n"," ","a","n","d"," ","I"," ",
            "n","e","e","d"," ","a","n"," ","a","p","p","o","i","n","t","m","e","n","t">>
\* "hello I'm"
T_Im == <<"h","e","l","l","o"," ","I","'","m">>
\* "I'd like to see Dr Smith on monday"
T_Smith == <<"I","'","d"," ","l","i","k","e"," ","t","o"," ","s","e","e"," ",
             "D","r"," ","S","m","i","t","h"," ","o","n"," ","m","o","n","d","a","y">>
\* "next week at 3pm"
T_NextWeek == <<"n","e","x","t"," ","w","e","e","k"," ","a","t"," ","3","p","m">>
\* "yes that's correct"
T_Yes == <<"y","e","s"," ","t","h","a","t","'","s"," ","c","o","r","r","e","c","t">>
\* "no that's wrong"
T_No == <<"n","o"," ","t","h","a","t","'","s"," ","w","r","o","n","g">>
\* "incorrect"
T_Incorrect == <<"i","n","c","o","r","r","e","c","t">>

Transcripts == {T_Empty, T_John, T_Im, T_Smith, T_NextWeek, T_Yes, T_No, T_Incorrect}

N_Ann == <<"A","n","n">>
N_Bob == <<"B","o","b">>
\* CallRequest.patient_name
PatientNames == {None, N_Ann}

\* what get_ai_response gives back: a reply text, or an exception
\* "thank you"
R_Thanks == <<"t","h","a","n","k"," ","y","o","u">>
\* "yes of course"
R_Yes == <<"y","e","s"," ","o","f"," ","c","o","u","r","s","e">>
AiReplies == {R_Thanks, R_Yes}
AiRaise == <<"raise">>
AiOutcomes == AiReplies \cup {AiRaise}

----------------------------------------------------------------------------
(* Dictionaries and markup                                                 *)

\* d.get(k, default)
Get(d, k, default) == IF k \in DOMAIN d THEN d[k] ELSE default
\* a bug: the assignment drops the other keys
Put_alone(d, k, v) == (k :> v)

\* d[k] = v
Put(d, k, v) == (k :> v) @@ d

Say(text) == [verb |-> "Say", arg |-> text]
Hangup == [verb |-> "Hangup", arg |-> ""]
Gather(text) == [verb |-> "Gather", arg |-> text]
Redirect(url) == [verb |-> "Redirect", arg |-> url]

WEBHOOK == "/api/voice/webhook"
PROCESS_SPEECH == "/api/voice/process-speech"
MAKE_CALL == "/api/make-call"

\* Response(content=str(response), media_type="application/xml"): status 200
Xml(endpoint, call_sid, verbs) ==
    [endpoint |-> endpoint, call_sid |-> call_sid, status |-> 200, markup |-> verbs]

NoResponse == [endpoint |-> "", call_sid |-> NoCallSid, status |-> 0, markup |-> <<>>]

----------------------------------------------------------------------------
(* State                                                                   *)

VARIABLES
    conversation_states,  \* the keys of the dict: the calls that have a ConversationState
    objects,              \* the ConversationState object created for each call
    patients,             \* db.patients, by patient id
    pending,              \* per call, the bag of transcripts of the process_speech
                          \* coroutines suspended in get_ai_response
    background,           \* the schedule_appointment task of each call
    scheduled,            \* how many times add_task(schedule_appointment) ran per call
    response,             \* the last HTTP response sent
    last_turn,            \* history: the stage found by the turn that `response` answers
    corrected,            \* history: the calls whose caller has rejected a summary
    alone,                \* history: each call's ConversationState had its turns run alone
    ended,                \* history: the calls a turn has answered with a hangup
    sheets                \* per call, what each log_to_google_sheets call returned

vars == <<conversation_states, objects, patients, pending, background, scheduled, response,
          last_turn, corrected, alone, ended, sheets>>

history == <<corrected, alone, ended, sheets>>

NoObject == [call_sid |-> NoCallSid]
NoPatient == [id |-> NoCallSid]
NoTurn == ""

\* Patient.id: uuid4, one per record
PatientId(c) == "patient-" \o c

PatientIds == {PatientId(c) : c \in CallSids}

Init ==
    /\ conversation_states = {}
    /\ objects = [c \in CallSids |-> NoObject]
    /\ patients = [p \in PatientIds |-> NoPatient]
    /\ pending = [c \in CallSids |-> EmptyBag]
    /\ background = [c \in CallSids |-> "none"]
    /\ scheduled = [c \in CallSids |-> 0]
    /\ response = NoResponse
    /\ last_turn = NoTurn
    /\ corrected = {}
    /\ alone = [c \in CallSids |-> NoObject]
    /\ ended = {}
    /\ sheets = [c \in CallSids |-> <<>>]

----------------------------------------------------------------------------
(* POST /api/make-call                                                     *)

\* a bug: the record is created as a completed booking
Patient_complete(c, name) ==
    [id |-> PatientId(c), name |-> name, preferred_doctor |-> None,
     appointment_date |-> None, appointment_time |-> None,
     conversation_complete |-> TRUE]

Patient(c, name) ==
    [id |-> PatientId(c), name |-> name, preferred_doctor |-> None,
     appointment_date |-> None, appointment_time |-> None,
     conversation_complete |-> FALSE]

ConversationState(c, name) ==
    [patient_id |-> PatientId(c), call_sid |-> c, conversation_stage |-> "greeting",
     collected_data |-> IF Truthy(name) THEN "name" :> name ELSE EmptyDict,
     attempts |-> 0]

\* outcome: "ok", "insert_raises" (db.patients.insert_one) or "create_raises"
\* (twilio_client.calls.create); c is the sid the provider gives the call
make_call(c, patient_name, outcome) ==
    /\ patients[PatientId(c)] = NoPatient
    /\ objects[c] = NoObject
    /\ patients' = IF outcome = "insert_raises" THEN patients
                   ELSE [patients EXCEPT ![PatientId(c)] = Patient(c, patient_name)]
    /\ IF outcome = "ok"
       THEN /\ conversation_states' = conversation_states \cup {c}
            /\ objects' = [objects EXCEPT ![c] = ConversationState(c, patient_name)]
            /\ alone' = [alone EXCEPT ![c] = ConversationState(c, patient_name)]
            /\ response' = [endpoint |-> MAKE_CALL, call_sid |-> c, status |-> 200,
                            markup |-> <<>>]
       ELSE /\ UNCHANGED <<conversation_states, objects, alone>>
            /\ response' = [endpoint |-> MAKE_CALL, call_sid |-> NoCallSid, status |-> 500,
                            markup |-> <<>>]
    /\ last_turn' = NoTurn
    /\ UNCHANGED <<pending, background, scheduled, corrected, ended, sheets>>

----------------------------------------------------------------------------
(* POST /api/voice/webhook                                                 *)

GREETING_NAMED == "Hello <name>, this is the AI assistant from your hospital. I'm calling to help you book an appointment. May I proceed?"
GREETING_PLAIN == "Hello, this is the AI assistant from your hospital. I'm calling to help you book an appointment. May I start by getting your name?"
SORRY_CALL_LATER == "I'm sorry, there was an error with the call. Please try again later."
SORRY_LATER == "I'm sorry, there was an error. Please try again later."
NO_INPUT == "I didn't receive any input. Please try again."

\* call_sid not in conversation_states
Unknown(call_sid) == call_sid \notin conversation_states

\* the markup voice_webhook builds for a call that is in the dict
voice_webhook_markup(cs) ==
    IF cs.conversation_stage = "greeting"
    THEN <<Gather(IF Truthy(Get(cs.collected_data, "name", None))
                  THEN <<GREETING_NAMED, cs.collected_data["name"]>>
                  ELSE <<GREETING_PLAIN>>),
           Say(NO_INPUT), Redirect(WEBHOOK)>>
    ELSE <<>>

\* a bug: the apology is spoken but the call is not hung up
voice_webhook_unknown_no_hangup == <<Say(SORRY_CALL_LATER)>>

\* what voice_webhook answers for a call that is not in the dict
voice_webhook_unknown == <<Say(SORRY_CALL_LATER), Hangup>>

\* form_ok = FALSE: request.form() raises
voice_webhook(call_sid, form_ok) ==
    /\ response' =
         IF ~form_ok THEN Xml(WEBHOOK, NoCallSid, <<Say(SORRY_LATER), Hangup>>)
         ELSE IF Unknown(call_sid)
              THEN Xml(WEBHOOK, call_sid, voice_webhook_unknown)
              ELSE Xml(WEBHOOK, call_sid, voice_webhook_markup(objects[call_sid]))
    /\ last_turn' = NoTurn
    /\ UNCHANGED <<conversation_states, objects, patients, pending, background, scheduled,
                   history>>

----------------------------------------------------------------------------
(* POST /api/voice/process-speech                                          *)

W_im == <<"i","'","m">>
W_my_name_is == <<"m","y"," ","n","a","m","e"," ","i","s">>
W_yes == <<"y","e","s">>
W_confirm == <<"c","o","n","f","i","r","m">>
W_correct == <<"c","o","r","r","e","c","t">>
W_no == <<"n","o">>
W_incorrect == <<"i","n","c","o","r","r","e","c","t">>

SORRY_CALL == "Sorry, there was an error with the call."
SORRY_PROCESSING == "I'm sorry, there was an error processing your response. Please try again."
GOODBYE == "Perfect! Your appointment has been booked and logged. You will receive a confirmation shortly. Thank you for calling. Goodbye!"
ASK_NAME == "Could you please tell me your name?"
ASK_DOCTOR == "Which doctor would you like to see?"
ASK_DATE == "What date would you prefer for your appointment?"
ASK_TIME == "What time would you prefer?"
THANKS_DATETIME == "Thank you for providing the date and time."
CONFIRM == "Let me confirm your appointment: <name>, you want to see Dr. <doctor> on <date> at <time>. Is this correct?"
NOT_CAUGHT == "I didn't catch that. Let me try again."

Affirmative(speech_result) ==
    \/ Contains(Lower(speech_result), W_yes)
    \/ Contains(Lower(speech_result), W_confirm)
    \/ Contains(Lower(speech_result), W_correct)

Negative(speech_result) ==
    \/ Contains(Lower(speech_result), W_no)
    \/ Contains(Lower(speech_result), W_incorrect)

\* the stage "greeting" of a call without a name: does the transcript announce one
AnnouncesName(speech_result) ==
    /\ Len(Split(speech_result)) >= 2
    /\ \/ Contains(Lower(speech_result), W_im)
       \/ Contains(Lower(speech_result), W_my_name_is)

\* name_part: the text after "i'm" or after "my name is", stripped
NamePart(speech_result) ==
    IF Contains(Lower(speech_result), W_im)
    THEN Strip(SplitSecond(Lower(speech_result), W_im))
    ELSE Strip(SplitSecond(Lower(speech_result), W_my_name_is))

\* everything process_speech computes from the transcript alone
Heard(speech_result) ==
    [extracted_info |-> extract_appointment_info(speech_result),
     announces_name |-> AnnouncesName(speech_result),
     \* name_part.split(): [0] of an empty list raises IndexError
     name_words |-> IF AnnouncesName(speech_result)
                    THEN Split(NamePart(speech_result)) ELSE <<>>,
     whole_name |-> Title(Strip(speech_result)),
     affirmative |-> Affirmative(speech_result),
     negative |-> Negative(speech_result)]

\* Heard, computed once for every transcript of the model
HeardOf == [t \in Transcripts |-> Heard(t)]

\* name_part.split()[0] raises IndexError when name_part has no word
NameRaises(cs, h) ==
    /\ cs.conversation_stage = "greeting"
    /\ "name" \notin DOMAIN cs.collected_data
    /\ h.announces_name
    /\ h.name_words = <<>>

\* a bug: the caller's "no" sends the dialogue back to asking the name
RESET_STAGE_Name == "name"

\* the stage a rejected summary resets the dialogue to
RESET_STAGE == "doctor"

\* a bug: the stage "doctor" also keeps a date the transcript carries
doctor_stage_stores_date(cs, extracted_info) ==
    IF Truthy(Get(extracted_info, "doctor", None))
    THEN [cs EXCEPT !.collected_data =
                        Put(extracted_info @@ cs.collected_data, "doctor",
                            extracted_info["doctor"]),
                    !.conversation_stage = "datetime"]
    ELSE cs

\* the branch of the stage "doctor"
doctor_stage(cs, extracted_info) ==
    IF Truthy(Get(extracted_info, "doctor", None))
    THEN [cs EXCEPT !.collected_data = Put(cs.collected_data, "doctor",
                                           extracted_info["doctor"]),
                    !.conversation_stage = "datetime"]
    ELSE cs

\* a bug: the stage "datetime" is left as soon as a date or a time is known
datetime_stage_either(cs, extracted_info) ==
    LET d1 == IF Truthy(Get(extracted_info, "date", None))
              THEN Put(cs.collected_data, "date", extracted_info["date"])
              ELSE cs.collected_data
        d2 == IF Truthy(Get(extracted_info, "time", None))
              THEN Put(d1, "time", extracted_info["time"]) ELSE d1
    IN  [cs EXCEPT !.collected_data = d2,
                   !.conversation_stage =
                       IF "date" \in DOMAIN d2 \/ "time" \in DOMAIN d2
                       THEN "confirmation" ELSE "datetime"]

\* the branch of the stage "datetime"
datetime_stage(cs, extracted_info) ==
    LET d1 == IF Truthy(Get(extracted_info, "date", None))
              THEN Put(cs.collected_data, "date", extracted_info["date"])
              ELSE cs.collected_data
        d2 == IF Truthy(Get(extracted_info, "time", None))
              THEN Put(d1, "time", extracted_info["time"]) ELSE d1
    IN  [cs EXCEPT !.collected_data = d2,
                   !.conversation_stage =
                       IF "date" \in DOMAIN d2 /\ "time" \in DOMAIN d2
                       THEN "confirmation" ELSE "datetime"]

\* a bug: a rejected summary resets the stage and keeps what was collected
confirmation_stage_keeps_data(cs, h) ==
    IF h.affirmative
    THEN [cs EXCEPT !.conversation_stage = "complete"]
    ELSE IF h.negative
         THEN [cs EXCEPT !.conversation_stage = RESET_STAGE]
         ELSE cs

\* the branch of the stage "confirmation"
confirmation_stage(cs, h) ==
    IF h.affirmative
    THEN [cs EXCEPT !.conversation_stage = "complete"]
    ELSE IF h.negative
         THEN [cs EXCEPT !.conversation_stage = RESET_STAGE,
                         !.collected_data = "name" :> Get(cs.collected_data, "name", <<>>)]
         ELSE cs

\* the update of the ConversationState: the if/elif chain on the stage
update_state(cs, h) ==
    LET stage == cs.conversation_stage
        data == cs.collected_data
        extracted_info == h.extracted_info
    IN  CASE stage = "greeting" ->
               IF "name" \notin DOMAIN data
               THEN IF h.announces_name
                    THEN [cs EXCEPT
                            !.collected_data = Put(data, "name", Title(h.name_words[1])),
                            !.conversation_stage = "doctor"]
                    ELSE [cs EXCEPT !.conversation_stage = "name"]
               ELSE [cs EXCEPT !.conversation_stage = "doctor"]
          [] stage = "name" ->
               [cs EXCEPT !.collected_data = Put(data, "name", h.whole_name),
                          !.conversation_stage = "doctor"]
          [] stage = "doctor" -> doctor_stage(cs, extracted_info)
          [] stage = "datetime" -> datetime_stage(cs, extracted_info)
          [] stage = "confirmation" -> confirmation_stage(cs, h)
          [] OTHER -> cs

\* a bug: the branch is taken on the stage the turn was accepted at, whatever
\* the stage is when the responder has returned
adds_task_any_stage(cs, h) == h.affirmative

\* a bug: the branch is also taken by a turn that finds the call complete
adds_task_when_complete(cs, h) ==
    cs.conversation_stage \in {"confirmation", "complete"} /\ h.affirmative

\* background_tasks.add_task(schedule_appointment, conversation_state)
adds_task(cs, h) ==
    cs.conversation_stage = "confirmation" /\ h.affirmative

\* next_question, for the stage after the update
next_question(cs) ==
    CASE cs.conversation_stage = "name" -> <<ASK_NAME>>
      [] cs.conversation_stage = "doctor" -> <<ASK_DOCTOR>>
      [] cs.conversation_stage = "datetime" ->
            IF "date" \notin DOMAIN cs.collected_data THEN <<ASK_DATE>>
            ELSE IF "time" \notin DOMAIN cs.collected_data THEN <<ASK_TIME>>
            ELSE <<THANKS_DATETIME>>
      [] cs.conversation_stage = "confirmation" ->
            <<CONFIRM, Get(cs.collected_data, "name", <<>>),
                       Get(cs.collected_data, "doctor", <<>>),
                       Get(cs.collected_data, "date", <<>>),
                       Get(cs.collected_data, "time", <<>>)>>

\* the TwiML generated for the stage after the update
twiml(cs, ai_response) ==
    IF cs.conversation_stage = "complete"
    THEN <<Say(GOODBYE), Hangup>>
    ELSE <<Gather(<<ai_response>> \o next_question(cs)),
           Say(NOT_CAUGHT), Redirect(PROCESS_SPEECH)>>

\* the handler's except clause
sorry_processing == <<Say(SORRY_PROCESSING), Hangup>>

\* a bug: the responder's reply is analysed together with the transcript
process_turn_hears_reply(cs, speech_result, ai_response) ==
    LET h == Heard(speech_result \o <<" ">> \o ai_response)
    IN  IF NameRaises(cs, h)
        THEN [state |-> cs, add_task |-> FALSE, markup |-> sorry_processing]
        ELSE [state |-> update_state(cs, h), add_task |-> adds_task(cs, h),
              markup |-> twiml(update_state(cs, h), ai_response)]

\* a bug: the stage is advanced before the name is taken from the transcript
process_turn_stage_first(cs, speech_result, ai_response) ==
    LET h == HeardOf[speech_result]
    IN  IF NameRaises(cs, h)
        THEN [state |-> [cs EXCEPT !.conversation_stage = "doctor"], add_task |-> FALSE,
              markup |-> sorry_processing]
        ELSE [state |-> update_state(cs, h), add_task |-> adds_task(cs, h),
              markup |-> twiml(update_state(cs, h), ai_response)]

\* the part of process_speech that runs once get_ai_response has returned:
\* the new ConversationState, whether the finalizer was added, the markup
process_turn(cs, speech_result, ai_response) ==
    LET h == HeardOf[speech_result]
    IN  IF NameRaises(cs, h)
        THEN [state |-> cs, add_task |-> FALSE, markup |-> sorry_processing]
        ELSE LET new == update_state(cs, h)
             IN  IF new.conversation_stage = "greeting"
                 THEN \* next_question is unbound: UnboundLocalError
                      [state |-> new, add_task |-> adds_task(cs, h),
                       markup |-> sorry_processing]
                 ELSE [state |-> new, add_task |-> adds_task(cs, h),
                       markup |-> twiml(new, ai_response)]

\* what process_speech answers for a call that is not in the dict
process_speech_unknown == <<Say(SORRY_CALL), Hangup>>

\* process_speech up to `await get_ai_response(...)`.  slots: how many turns of
\* one call the transport lets be in flight
process_speech_accept(call_sid, speech_result, form_ok, slots) ==
    /\ IF ~form_ok
       THEN /\ response' = Xml(PROCESS_SPEECH, NoCallSid, sorry_processing)
            /\ last_turn' = NoTurn
            /\ UNCHANGED pending
       ELSE IF Unknown(call_sid)
            THEN /\ response' = Xml(PROCESS_SPEECH, call_sid, process_speech_unknown)
                 /\ last_turn' = NoTurn
                 /\ UNCHANGED pending
            ELSE /\ BagCardinality(pending[call_sid]) < slots
                 /\ pending' = [pending EXCEPT
                                  ![call_sid] = @ (+) SetToBag({speech_result})]
                 /\ UNCHANGED <<response, last_turn>>
    /\ UNCHANGED <<conversation_states, objects, patients, background, scheduled, history>>

\* process_speech from the return of get_ai_response to the response
process_speech_resume(c, speech_result, ai) ==
    LET out == process_turn(objects[c], speech_result, ai)
    IN  /\ BagIn(speech_result, pending[c])
        /\ pending' = [pending EXCEPT ![c] = @ (-) SetToBag({speech_result})]
        /\ last_turn' = objects[c].conversation_stage
        /\ IF ai = AiRaise
           THEN /\ response' = Xml(PROCESS_SPEECH, c, sorry_processing)
                /\ UNCHANGED <<objects, background, scheduled, corrected, alone>>
           ELSE /\ objects' = [objects EXCEPT ![c] = out.state]
                /\ scheduled' = [scheduled EXCEPT ![c] = IF out.add_task THEN @ + 1 ELSE @]
                /\ background' = [background EXCEPT
                                    ![c] = IF out.add_task /\ @ = "none" THEN "queued" ELSE @]
                /\ response' = Xml(PROCESS_SPEECH, c, out.markup)
                /\ corrected' =
                     IF /\ objects[c].conversation_stage = "confirmation"
                        /\ out.state.conversation_stage = "doctor"
                     THEN corrected \cup {c} ELSE corrected
                /\ alone' = [alone EXCEPT
                               ![c] = process_turn(@, speech_result, ai).state]
        /\ ended' = IF Hangup \in Range(response'.markup) THEN ended \cup {c} ELSE ended
        /\ UNCHANGED <<conversation_states, patients, sheets>>

----------------------------------------------------------------------------
(* The background task schedule_appointment                                *)

\* log_to_google_sheets: True, or False after an exception it has caught
log_to_google_sheets(sheets_ok) == sheets_ok

\* a bug: the $set leaves conversation_complete out
updated_patient_not_complete(patient, cs) ==
    [patient EXCEPT !.name = Get(cs.collected_data, "name", None),
                    !.preferred_doctor = Get(cs.collected_data, "doctor", None),
                    !.appointment_date = Get(cs.collected_data, "date", None),
                    !.appointment_time = Get(cs.collected_data, "time", None)]

\* the $set of db.patients.update_one
updated_patient(patient, cs) ==
    [patient EXCEPT !.name = Get(cs.collected_data, "name", None),
                    !.preferred_doctor = Get(cs.collected_data, "doctor", None),
                    !.appointment_date = Get(cs.collected_data, "date", None),
                    !.appointment_time = Get(cs.collected_data, "time", None),
                    !.conversation_complete = TRUE]

\* schedule_appointment up to `await db.patients.update_one(...)`; when the
\* update raises, the except clause logs and the task ends
schedule_appointment_update(c, update_ok) ==
    /\ background[c] = "queued"
    /\ IF update_ok
       THEN /\ patients' = [patients EXCEPT ![objects[c].patient_id] =
                               updated_patient(@, objects[c])]
            /\ background' = [background EXCEPT ![c] = "updated"]
       ELSE /\ background' = [background EXCEPT ![c] = "failed"]
            /\ UNCHANGED patients
    /\ UNCHANGED <<conversation_states, objects, pending, scheduled, response, last_turn,
                   history>>

\* a bug: the clean-up empties the dict instead of deleting one key
schedule_appointment_cleanup_all(c, sheets_ok) ==
    /\ background[c] = "updated"
    /\ sheets' = [sheets EXCEPT ![c] = Append(@, log_to_google_sheets(sheets_ok))]
    /\ conversation_states' = {}
    /\ background' = [background EXCEPT ![c] = "done"]
    /\ UNCHANGED <<objects, patients, pending, scheduled, response, last_turn, corrected,
                   alone, ended>>

\* a bug: a failed export is raised, and the except clause ends the task
schedule_appointment_cleanup_raises(c, sheets_ok) ==
    /\ background[c] = "updated"
    /\ sheets' = [sheets EXCEPT ![c] = Append(@, log_to_google_sheets(sheets_ok))]
    /\ conversation_states' = IF sheets_ok THEN conversation_states \ {objects[c].call_sid}
                              ELSE conversation_states
    /\ background' = [background EXCEPT ![c] = IF sheets_ok THEN "done" ELSE "failed"]
    /\ UNCHANGED <<objects, patients, pending, scheduled, response, last_turn, corrected,
                   alone, ended>>

\* schedule_appointment after the update: the export, then the clean-up
schedule_appointment_cleanup(c, sheets_ok) ==
    /\ background[c] = "updated"
    /\ sheets' = [sheets EXCEPT ![c] = Append(@, log_to_google_sheets(sheets_ok))]
    /\ conversation_states' = conversation_states \ {objects[c].call_sid}
    /\ background' = [background EXCEPT ![c] = "done"]
    /\ UNCHANGED <<objects, patients, pending, scheduled, response, last_turn, corrected,
                   alone, ended>>

----------------------------------------------------------------------------
(* The specifications.  Any request may arrive at any time; the transport  *)
(* lets at most MaxPending turns of one call be in flight.                 *)

MaxPending == 1

\* the CallSid of a request: one of `calls`, or none
Requested(calls) == calls \cup {NoCallSid}

\* requests: the calls that may be placed, each <<sid, patient_name>>
MakeCall(requests) ==
    \E r \in requests, o \in {"ok", "insert_raises", "create_raises"} :
        make_call(r[1], r[2], o)
VoiceWebhook(calls) ==
    \E c \in Requested(calls), ok \in BOOLEAN : voice_webhook(c, ok)
ProcessSpeechAccept(calls, transcripts, slots) ==
    \E c \in Requested(calls), t \in transcripts, ok \in BOOLEAN :
        process_speech_accept(c, t, ok, slots)
\* outcomes: what get_ai_response may do
ProcessSpeechResume(outcomes) ==
    \E c \in CallSids, t \in Transcripts, ai \in outcomes : process_speech_resume(c, t, ai)
ScheduleAppointmentUpdate ==
    \E c \in CallSids, ok \in BOOLEAN : schedule_appointment_update(c, ok)
ScheduleAppointmentCleanup ==
    \E c \in CallSids, ok \in BOOLEAN : schedule_appointment_cleanup(c, ok)

\* one call is placed; requests name it before, while and after it is in the dict
SpecCallSids == {"CA1"}

Next ==
    \/ MakeCall(SpecCallSids \X PatientNames)
    \/ VoiceWebhook(SpecCallSids)
    \/ ProcessSpeechAccept(SpecCallSids, Transcripts, MaxPending)
    \/ ProcessSpeechResume(AiOutcomes)
    \/ ScheduleAppointmentUpdate
    \/ ScheduleAppointmentCleanup

Spec == Init /\ [][Next]_vars

\* the event loop resumes a coroutine whose await has returned and runs the
\* background tasks that were added; nothing makes a request arrive
Fairness ==
    /\ WF_vars(ProcessSpeechResume(AiOutcomes))
    /\ WF_vars(ScheduleAppointmentUpdate)
    /\ WF_vars(ScheduleAppointmentCleanup)

SpecLive == Init /\ [][Next]_vars /\ Fairness

\* two calls progress at the same time, each through the whole dialogue, with
\* a responder that answers
TranscriptsOfCalls == {T_Smith, T_NextWeek, T_Yes, T_No}

NextCalls ==
    \/ MakeCall({<<"CA1", N_Ann>>, <<"CA2", N_Bob>>})
    \/ VoiceWebhook(CallSids)
    \/ ProcessSpeechAccept(CallSids, TranscriptsOfCalls, 1)
    \/ ProcessSpeechResume({R_Thanks})
    \/ ScheduleAppointmentUpdate
    \/ ScheduleAppointmentCleanup

SpecCalls == Init /\ [][NextCalls]_vars

----------------------------------------------------------------------------
(* Properties                                                              *)

\* how many turns of one call may overlap
MaxOverlap == 2

\* the provider posts a turn only for a call that has not been hung up: a
\* turn that finds the call ended was accepted before the hangup
TurnWhileLive(calls, transcripts, slots) ==
    \E c \in calls, t \in transcripts :
        /\ c \notin ended
        /\ process_speech_accept(c, t, TRUE, slots)

\* one call whose turns overlap: a turn is accepted while another is suspended
NextOverlap ==
    \/ MakeCall({<<"CA1", N_Ann>>})
    \/ VoiceWebhook(SpecCallSids)
    \/ TurnWhileLive(SpecCallSids, TranscriptsOfCalls, MaxOverlap)
    \/ ProcessSpeechResume(AiOutcomes)
    \/ ScheduleAppointmentUpdate
    \/ ScheduleAppointmentCleanup

SpecOverlap == Init /\ [][NextOverlap]_vars

Stage(c) == objects[c].conversation_stage
Data(c) == objects[c].collected_data
Placed(c) == objects[c] # NoObject

\* C1: with the turns of a call processed one at a time, whatever their
\* number, the corrections among them and the turns that arrive after the
\* call is complete, schedule_appointment is added at most once per call.
C1_FinalizerAtMostOnce == \A c \in CallSids : scheduled[c] <= 1

\* a call that was corrected, then confirmed, and then got one more turn
C1_Witness ==
    \E c \in CallSids :
        /\ scheduled[c] = 1
        /\ c \in corrected
        /\ response.call_sid = c
        /\ last_turn = "complete"

\* C2: once the schedule_appointment task of a call has ended, with or
\* without an exception, the call's ConversationState is not in the dict.
C2_FinalizedIsReleased ==
    \A c \in CallSids : background[c] \in {"done", "failed"} => c \notin conversation_states

Apologies == {SORRY_CALL_LATER, SORRY_LATER, SORRY_CALL, SORRY_PROCESSING}

ApologyAndHangup(markup) ==
    /\ Len(markup) = 2
    /\ markup[1].verb = "Say"
    /\ markup[1].arg \in Apologies
    /\ markup[2].verb = "Hangup"

\* C3: a request to /voice/webhook or /voice/process-speech whose CallSid is
\* not in the dict (or is missing) is answered 200 with an apology and a
\* hangup, and changes no ConversationState, no patient record, no task.
C3_UnknownCallIsHarmless ==
    [][\A c \in Requested(SpecCallSids), ok \in BOOLEAN :
          (/\ c \notin conversation_states
           /\ \/ voice_webhook(c, ok)
              \/ \E t \in Transcripts : process_speech_accept(c, t, ok, MaxPending))
          => /\ response'.status = 200
             /\ ApologyAndHangup(response'.markup)
             /\ UNCHANGED <<conversation_states, objects, patients, pending, background,
                            scheduled>>]_vars

\* both endpoints have turned away a request for a call that was finalized
C3_Witness ==
    /\ background["CA1"] = "done"
    /\ response.call_sid = "CA1"
    /\ response.endpoint = WEBHOOK
    /\ response.markup = voice_webhook_unknown

Edges ==
    {<<"greeting", "name">>, <<"greeting", "doctor">>, <<"name", "doctor">>,
     <<"doctor", "doctor">>, <<"doctor", "datetime">>, <<"datetime", "datetime">>,
     <<"datetime", "confirmation">>, <<"confirmation", "confirmation">>,
     <<"confirmation", "complete">>, <<"confirmation", "doctor">>}

StageOrder == <<"greeting", "name", "doctor", "datetime", "confirmation", "complete">>
Rank(stage) == CHOOSE i \in DOMAIN StageOrder : StageOrder[i] = stage

\* C4: a turn that changes the stage of a call takes one of the listed
\* edges; the only such edge to an earlier stage is confirmation->doctor, and
\* a call that has left greeting and name never has one of them again.
C4_StageEdges ==
    [][\A c \in CallSids :
          (Placed(c) /\ objects'[c].conversation_stage # Stage(c))
          => /\ <<Stage(c), objects'[c].conversation_stage>> \in Edges
             /\ Rank(objects'[c].conversation_stage) < Rank(Stage(c))
                   => (Stage(c) = "confirmation"
                       /\ objects'[c].conversation_stage = "doctor")
             /\ objects'[c].conversation_stage \notin {"greeting"}
             /\ Stage(c) \notin {"greeting", "name"}
                   => objects'[c].conversation_stage # "name"]_vars

\* the last turn took the correction edge
C4_Witness ==
    \E c \in CallSids :
        /\ response.call_sid = c
        /\ last_turn = "confirmation"
        /\ Stage(c) = "doctor"


TurnOf(a) ==
    \/ \E t \in Transcripts, ok \in BOOLEAN : process_speech_accept(a, t, ok, 1)
    \/ \E t \in Transcripts, ai \in AiOutcomes : process_speech_resume(a, t, ai)

FinalizerOf(a) ==
    \E ok \in BOOLEAN : schedule_appointment_update(a, ok) \/ schedule_appointment_cleanup(a, ok)

\* C5: with the turns and finalizers of two calls interleaved, a step of call
\* a leaves the ConversationState, the dict entry and the patient record of
\* every other call as they were, and every call has the stage and the
\* collected data it would have had its turns run alone.
C5_CallsDoNotInterfere ==
    /\ [](\A c \in CallSids :
             Placed(c) => /\ Stage(c) = alone[c].conversation_stage
                          /\ Data(c) = alone[c].collected_data)
    /\ [][\A a \in CallSids :
             (TurnOf(a) \/ FinalizerOf(a))
             => \A b \in CallSids \ {a} :
                   /\ objects'[b] = objects[b]
                   /\ patients'[PatientId(b)] = patients[PatientId(b)]
                   /\ (b \in conversation_states') = (b \in conversation_states)]_vars

\* CA1 is being finalized while a turn of CA2 waits for the responder
C5_Witness ==
    /\ background["CA1"] = "updated"
    /\ "CA2" \in conversation_states
    /\ Stage("CA2") = "datetime"
    /\ pending["CA2"] # EmptyBag

\* C6: the ConversationState a turn leaves and whether it adds the finalizer
\* depend on the ConversationState it finds and on the transcript, not on the
\* text get_ai_response returns.
C6_ReplyDoesNotDecide ==
    \A c \in CallSids :
        Placed(c) =>
            \A t \in Transcripts, r1, r2 \in AiReplies :
                /\ process_turn(objects[c], t, r1).state = process_turn(objects[c], t, r2).state
                /\ process_turn(objects[c], t, r1).add_task
                      = process_turn(objects[c], t, r2).add_task

\* a turn answered with the reply "yes of course" has left the call at confirmation
C6_Witness ==
    \E c \in CallSids :
        /\ response.call_sid = c
        /\ last_turn = "datetime"
        /\ Stage(c) = "confirmation"
        /\ response.markup[1].arg[1] = R_Yes

Completed(c) == patients[PatientId(c)].conversation_complete

\* the transcripts that contain "yes", "confirm" or "correct"
AffirmativeTranscripts ==
    {t \in Transcripts : \/ Contains(Lower(t), <<"y","e","s">>)
                         \/ Contains(Lower(t), <<"c","o","n","f","i","r","m">>)
                         \/ Contains(Lower(t), <<"c","o","r","r","e","c","t">>)}

\* the transcripts that contain "no" or "incorrect"
NegativeTranscripts ==
    {t \in Transcripts : \/ Contains(Lower(t), <<"n","o">>)
                         \/ Contains(Lower(t), <<"i","n","c","o","r","r","e","c","t">>)}

C8_NegativeResets ==
    [][\A c \in CallSids, t \in NegativeTranscripts, ai \in AiReplies :
          (/\ Placed(c)
           /\ Stage(c) = "confirmation"
           /\ process_speech_resume(c, t, ai))
          => /\ objects'[c].conversation_stage = "doctor"
             /\ DOMAIN objects'[c].collected_data = {"name"}
             /\ objects'[c].collected_data["name"] = Data(c)["name"]
             /\ scheduled'[c] = scheduled[c]]_vars

PromptsAndListens(markup) ==
    /\ Len(markup) = 3
    /\ markup[1].verb = "Gather"
    /\ markup[1].arg # <<>>
    /\ markup[2].verb = "Say"
    /\ markup[3].verb = "Redirect"

SpeaksAndEnds(markup) ==
    /\ Len(markup) = 2
    /\ markup[1].verb = "Say"
    /\ markup[2].verb = "Hangup"

\* C9: when get_ai_response raises in a turn of a call that is in the dict and
\* not complete, the turn answers with a prompt and a Gather, not a hangup.
C9_ResponderFailureReprompts ==
    [][\A c \in CallSids, t \in Transcripts :
          (/\ c \in conversation_states
           /\ Stage(c) # "complete"
           /\ process_speech_resume(c, t, AiRaise))
          => PromptsAndListens(response'.markup)]_vars

\* C10: every response of /voice/webhook and /voice/process-speech either
\* speaks and hangs up, or speaks a prompt inside a Gather with a callback.
C10_AlwaysMarkup ==
    response.endpoint \in {WEBHOOK, PROCESS_SPEECH}
        => (SpeaksAndEnds(response.markup) \/ PromptsAndListens(response.markup))


Finalized(c) == background[c] \in {"done", "failed"}

\* C11: in every reachable state a call's ConversationState is in the dict
\* exactly when the call has been placed, has not been answered with a hangup
\* and has not been finalized.
C11_StoredIffActive ==
    \A c \in CallSids :
        (c \in conversation_states) <=> (Placed(c) /\ c \notin ended /\ ~Finalized(c))

Fields == {"name", "doctor", "date", "time"}

IsSet(data, k) == k \in DOMAIN data /\ data[k] # <<>>

\* C12: a step never removes or empties a collected field that is set, except
\* the correction confirmation->doctor, which leaves exactly the name.
C12_FieldsStaySet ==
    [][\A c \in CallSids :
          Placed(c) =>
              \/ \A k \in Fields :
                    /\ k \in DOMAIN Data(c) => k \in DOMAIN objects'[c].collected_data
                    /\ IsSet(Data(c), k) => IsSet(objects'[c].collected_data, k)
              \/ /\ Stage(c) = "confirmation"
                 /\ objects'[c].conversation_stage = "doctor"
                 /\ DOMAIN objects'[c].collected_data = {"name"}
                 /\ objects'[c].collected_data["name"] = Data(c)["name"]]_vars

\* after a correction the call has collected doctor, date and time again
C12_Witness ==
    \E c \in CallSids :
        /\ c \in corrected
        /\ Stage(c) = "confirmation"
        /\ last_turn = "datetime"
        /\ IsSet(Data(c), "name") /\ IsSet(Data(c), "time")

\* C13: a turn at stage greeting whose responder call returns either stores a
\* name and moves to doctor, or moves to name with the collected data
\* unchanged (to doctor when a name is known already); it never answers with
\* a hangup and never leaves the stage at greeting.
C13_GreetingOutcomes ==
    [][\A c \in CallSids, t \in Transcripts, ai \in AiReplies :
          (/\ Placed(c)
           /\ Stage(c) = "greeting"
           /\ process_speech_resume(c, t, ai))
          => /\ Hangup \notin Range(response'.markup)
             /\ IF "name" \in DOMAIN Data(c)
                THEN /\ objects'[c].conversation_stage = "doctor"
                     /\ objects'[c].collected_data = Data(c)
                ELSE \/ /\ objects'[c].conversation_stage = "doctor"
                        /\ IsSet(objects'[c].collected_data, "name")
                     \/ /\ objects'[c].conversation_stage = "name"
                        /\ objects'[c].collected_data = Data(c)]_vars


\* what extract_appointment_info finds in a transcript
Found(t, k) == Get(HeardOf[t].extracted_info, k, None)

\* the other keys of the collected data are as they were
SameExcept(c, keys) ==
    \A k \in Fields \ keys :
        /\ (k \in DOMAIN objects'[c].collected_data) = (k \in DOMAIN Data(c))
        /\ k \in DOMAIN Data(c) => objects'[c].collected_data[k] = Data(c)[k]

\* the text spoken inside the Gather of the response
Prompt(r) == r.markup[1].arg

\* C14: at stage doctor a turn whose transcript yields no doctor leaves the
\* stage and the collected data as they were, asks for the doctor again and
\* adds one to ConversationState.attempts.
C14_NoDoctorCountsAttempt ==
    [][\A c \in CallSids, t \in Transcripts, ai \in AiReplies :
          (/\ Placed(c)
           /\ Stage(c) = "doctor"
           /\ ~Truthy(Found(t, "doctor"))
           /\ process_speech_resume(c, t, ai))
          => /\ objects'[c].conversation_stage = "doctor"
             /\ objects'[c].collected_data = Data(c)
             /\ response'.markup[1].verb = "Gather"
             /\ Prompt(response') = <<ai, ASK_DOCTOR>>
             /\ objects'[c].attempts = objects[c].attempts + 1]_vars

\* C15: at stage doctor a turn whose transcript yields a doctor stores it and
\* moves to datetime; name, date and time are as before, whatever date or
\* time the transcript carries.
C15_DoctorOnly ==
    [][\A c \in CallSids, t \in Transcripts, ai \in AiReplies :
          (/\ Placed(c)
           /\ Stage(c) = "doctor"
           /\ Truthy(Found(t, "doctor"))
           /\ process_speech_resume(c, t, ai))
          => /\ objects'[c].conversation_stage = "datetime"
             /\ objects'[c].collected_data["doctor"] = Found(t, "doctor")
             /\ SameExcept(c, {"doctor"})]_vars

\* "I'd like to see Dr Smith on monday" was heard at stage doctor: the doctor
\* is stored, the date is not
C15_Witness ==
    \E c \in CallSids :
        /\ Truthy(Found(T_Smith, "date"))
        /\ response.call_sid = c
        /\ last_turn = "doctor"
        /\ Stage(c) = "datetime"
        /\ Data(c)["doctor"] = <<"S","m","i","t","h">>
        /\ "date" \notin DOMAIN Data(c)

\* C16: at stage datetime a date or a time that is found is stored over any
\* earlier value, one that is not found keeps its value, and the stage is
\* confirmation exactly when both are present after the turn; otherwise the
\* stage stays datetime and the prompt asks for the date when it is missing,
\* else for the time.
C16_DateAndTime ==
    [][\A c \in CallSids, t \in Transcripts, ai \in AiReplies :
          (/\ Placed(c)
           /\ Stage(c) = "datetime"
           /\ process_speech_resume(c, t, ai))
          => LET data == objects'[c].collected_data
                 both == "date" \in DOMAIN data /\ "time" \in DOMAIN data
             IN  /\ \A k \in {"date", "time"} :
                       IF Truthy(Found(t, k))
                       THEN data[k] = Found(t, k)
                       ELSE SameExcept(c, Fields \ {k})
                 /\ SameExcept(c, {"date", "time"})
                 /\ objects'[c].conversation_stage =
                        IF both THEN "confirmation" ELSE "datetime"
                 /\ ~both => Prompt(response') =
                                <<ai, IF "date" \notin DOMAIN data THEN ASK_DATE
                                      ELSE ASK_TIME>>]_vars

\* a turn at stage datetime brought the date only: the call is asked the time
C16_Witness ==
    \E c \in CallSids :
        /\ response.call_sid = c
        /\ last_turn = "datetime"
        /\ Stage(c) = "datetime"
        /\ "date" \in DOMAIN Data(c)
        /\ "time" \notin DOMAIN Data(c)
        /\ Prompt(response)[2] = ASK_TIME


\* the transcripts with neither an affirmative nor a negative keyword
UnresolvedTranscripts == Transcripts \ (AffirmativeTranscripts \cup NegativeTranscripts)

\* C17: a call does not stay at confirmation for any number of turns with
\* neither keyword: such a turn leaves confirmation, ends the call, or is
\* counted in the ConversationState towards the cap (a turn that gives back
\* the ConversationState it found can be repeated for ever).
C17_ConfirmationIsCapped ==
    [][\A c \in CallSids, t \in UnresolvedTranscripts, ai \in AiReplies :
          (/\ Placed(c)
           /\ Stage(c) = "confirmation"
           /\ process_speech_resume(c, t, ai))
          => \/ objects'[c].conversation_stage # "confirmation"
             \/ Hangup \in Range(response'.markup)
             \/ objects'[c] # objects[c]]_vars

\* C18: a turn for a call whose stage is complete is answered without a call
\* to the responder (the turn is never suspended in get_ai_response) and
\* without extraction; it keeps the stage and the collected data and answers
\* with a hangup, as does the turn that makes the stage complete.
C18_CompleteIsTerminal ==
    [][\A c \in CallSids, t \in Transcripts :
          /\ (/\ c \in conversation_states
              /\ Stage(c) = "complete"
              /\ process_speech_accept(c, t, TRUE, MaxPending))
             => /\ pending'[c] = pending[c]
                /\ response' = Xml(PROCESS_SPEECH, c, <<Say(GOODBYE), Hangup>>)
          /\ \A ai \in AiOutcomes :
                (Placed(c) /\ process_speech_resume(c, t, ai))
                => /\ Stage(c) = "complete"
                      => /\ objects'[c] = objects[c]
                         /\ Hangup \in Range(response'.markup)
                   /\ (Stage(c) # "complete" /\ objects'[c].conversation_stage = "complete")
                      => Hangup \in Range(response'.markup)]_vars


\* C19: when log_to_google_sheets fails, schedule_appointment goes on: the
\* patient record was updated before, with conversation_complete true, and
\* stays so; the ConversationState is deleted from the dict; the task ends
\* and the export is not called a second time.
C19_ExportFailureIsSwallowed ==
    /\ [][\A c \in CallSids :
             schedule_appointment_cleanup(c, FALSE)
             => /\ Completed(c)
                /\ patients' = patients
                /\ c \notin conversation_states'
                /\ background'[c] = "done"
                /\ sheets'[c] = <<FALSE>>]_vars
    /\ [](\A c \in CallSids :
             /\ Len(sheets[c]) <= 1
             /\ sheets[c] # <<>> => (Completed(c) /\ background[c] = "done"))

\* the export of a booked call has failed
C19_Witness ==
    \E c \in CallSids :
        /\ sheets[c] = <<FALSE>>
        /\ Completed(c)
        /\ c \notin conversation_states
        /\ patients[PatientId(c)].appointment_time = <<"3","p","m">>


\* a call in the dict that is not complete and has no turn in flight
Orphaned(c) ==
    /\ c \in conversation_states
    /\ Stage(c) # "complete"
    /\ pending[c] = EmptyBag

\* C20: a call that stops receiving turns before it is complete does not stay
\* in the dict for ever: its ConversationState is eventually removed.
C20_OrphanIsReclaimed == \A c \in CallSids : []<>(~Orphaned(c))


\* the patient record of a call
Record(c) == patients[PatientId(c)]

\* the four fields of a record are the collected data
Holds(record, data) ==
    /\ record.name = Get(data, "name", None)
    /\ record.preferred_doctor = Get(data, "doctor", None)
    /\ record.appointment_date = Get(data, "date", None)
    /\ record.appointment_time = Get(data, "time", None)

\* C21: a patient record is created by make_call with conversation_complete
\* false, is changed only by schedule_appointment and only while the flag is
\* false, and is never deleted; the collected data do not change in or after
\* the turn that makes the stage complete, and a record that was changed has
\* the flag true and the name, doctor, date and time of those data.
C21_RecordWrittenOnce ==
    /\ [][\A c \in CallSids :
             /\ Record(c) # NoPatient => patients'[PatientId(c)] # NoPatient
             /\ (Record(c) = NoPatient /\ patients'[PatientId(c)] # NoPatient)
                => /\ \E n \in PatientNames \cup {N_Bob} :
                         make_call(c, n, "ok") \/ make_call(c, n, "create_raises")
                   /\ ~patients'[PatientId(c)].conversation_complete
             /\ (Record(c) # NoPatient /\ patients'[PatientId(c)] # Record(c))
                => /\ schedule_appointment_update(c, TRUE)
                   /\ ~Completed(c)
                   /\ patients'[PatientId(c)].conversation_complete
             /\ (Placed(c) /\ objects'[c].conversation_stage = "complete")
                => objects'[c].collected_data = Data(c)]_vars
    /\ [](\A c \in CallSids :
             (Record(c) # NoPatient /\ Completed(c))
             => /\ Stage(c) = "complete"
                /\ Holds(Record(c), Data(c)))

\* the record of a call that was corrected and then confirmed
C21_Witness ==
    \E c \in CallSids :
        /\ c \in corrected
        /\ Record(c) # NoPatient
        /\ Completed(c)
        /\ Record(c).appointment_date = <<"n","e","x","t"," ","w","e","e","k">>


\* C22: in every reachable state a ConversationState at stage confirmation or
\* complete has doctor, date and time, none of them empty, and one at stage
\* doctor has none of the three.
C22_FieldsMatchStage ==
    \A c \in CallSids :
        Placed(c) =>
            /\ Stage(c) \in {"confirmation", "complete"}
               => \A k \in {"doctor", "date", "time"} : IsSet(Data(c), k)
            /\ Stage(c) = "doctor"
               => \A k \in {"doctor", "date", "time"} : k \notin DOMAIN Data(c)

\* a call back at stage doctor after its summary was rejected
C22_Witness ==
    \E c \in CallSids :
        /\ response.call_sid = c
        /\ last_turn = "confirmation"
        /\ Stage(c) = "doctor"
        /\ c \in corrected
        /\ "name" \in DOMAIN Data(c)

\* C23: in every reachable state a ConversationState at stage doctor,
\* datetime, confirmation or complete has a name that is not empty, whatever
\* the transcripts at greeting and name were, and a patient record that
\* schedule_appointment has updated has a name that is not empty.
C23_NameIsNeverEmpty ==
    \A c \in CallSids :
        Placed(c) =>
            /\ Stage(c) \in {"doctor", "datetime", "confirmation", "complete"}
               => IsSet(Data(c), "name")
            /\ Completed(c) => Record(c).name \notin {<<>>, None}


\* C24: a turn of a call in the dict that is answered with the apology and
\* hangup of the except clause, after a failure of the responder or of the
\* processing of the transcript, leaves the ConversationState (stage,
\* collected data, attempts) as it was and adds no schedule_appointment.
C24_FaultChangesNothing ==
    [][\A c \in CallSids, t \in Transcripts, ai \in AiOutcomes :
          (/\ Placed(c)
           /\ process_speech_resume(c, t, ai)
           /\ response'.markup = sorry_processing)
          => /\ objects'[c] = objects[c]
             /\ scheduled' = scheduled
             /\ background' = background
             /\ patients' = patients]_vars

\* "hello I'm" at stage greeting has been answered with the apology
C24_Witness ==
    \E c \in CallSids :
        /\ response.call_sid = c
        /\ response.markup = sorry_processing
        /\ last_turn = "greeting"
        /\ Stage(c) = "greeting"
        /\ pending[c] = EmptyBag
        /\ c \in ended


\* C25: schedule_appointment is added at most once per call also when turns
\* of the call overlap: of two affirmative turns suspended together at stage
\* confirmation, the one that resumes second finds the stage complete and
\* adds nothing.
C25_OverlapSchedulesOnce ==
    /\ [](\A c \in CallSids : scheduled[c] <= 1 /\ (scheduled[c] = 1 => Stage(c) = "complete"))
    /\ [][\A c \in CallSids, t \in AffirmativeTranscripts, ai \in AiReplies :
             (/\ Placed(c)
              /\ CopiesIn(t, pending[c]) = 2
              /\ process_speech_resume(c, t, ai))
             => scheduled'[c] = IF Stage(c) = "confirmation" THEN 1 ELSE scheduled[c]]_vars

\* the second of two overlapping turns has found the call complete
C25_Witness ==
    \E c \in CallSids :
        /\ scheduled[c] = 1
        /\ response.call_sid = c
        /\ last_turn = "complete"
        /\ response.markup = <<Say(GOODBYE), Hangup>>
        /\ background[c] = "queued"

====
